---- MODULE Spec2Model ----
(***************************************************************************)
(* Model of src/app.py: the rank resolver search_single_business, the      *)
(* batch orchestrator search_multiple_businesses, and the cached session   *)
(* factory setup_driver.                                                   *)
(*                                                                         *)
(* Texts are sequences of one-character strings; " " is whitespace.        *)
(* A feed is the ordered list of <li> entries the site serves for a        *)
(* keyword; the rendered page shows a prefix of it that grows by           *)
(* appending when the list container is scrolled.                          *)
(***************************************************************************)
EXTENDS Integers, Sequences, FiniteSets, TLC

VARIABLES
    \* process-wide state
    cached,         \* st.cache_resource holds the driver made by setup_driver
    driver,         \* that driver: [disposed, quits], quits counting driver.quit()
    stale_ops,      \* number of driver.get calls issued on it after quit
    runs,           \* number of search_multiple_businesses calls so far
    ui_max_scrolls, \* value of the "max scroll count" slider
    \* frame of search_multiple_businesses
    bpc,            \* "idle" | "loop" | "call" | "done" | "direct"
    keywords, shop_names, i, results, progress,
    run_quits,      \* driver.quit() calls made by the current run
    outcomes,       \* per resolved pair: how its resolution failed (or "none")
                    \* and the feed index of the entry it matched (or 0)
    \* frame of search_single_business
    rpc,            \* "none" | "nav" | "loop" | "ret"
    shop_name, max_scrolls, rank, scroll_count, result,
    feed, visible,  \* the site's list for the keyword; how many <li> are rendered
    seen,           \* number of entries in the last page_source snapshot
    failure,        \* "none" | "get" | "iframe" | "container" | "snapshot" | "scroll"
    matched,        \* index in the feed of the entry at which the walk returned
    cycle_base,     \* value of rank when the last walk began
    ordinals,       \* ordinal (value of rank) given to each entry in the last walk
    prev_ordinals   \* the same for the walk before it

proc_vars == <<cached, driver, stale_ops, runs, ui_max_scrolls>>
batch_vars == <<bpc, keywords, shop_names, i, results, progress, run_quits, outcomes>>
call_vars == <<rpc, shop_name, max_scrolls, rank, scroll_count, result, feed,
               visible, seen, failure, matched, cycle_base, ordinals, prev_ordinals>>
vars == <<proc_vars, batch_vars, call_vars>>

----------------------------------------------------------------------------
\* Bounds of the model
MaxFeed == 3        \* longest feed in the resolver specification
MaxBudget == 5      \* largest max_scrolls of a direct call
MaxPairs == 2       \* longest batch
MaxRuns == 2        \* batch runs in one process
LoadWindow == 2     \* scrolls after which the feed has stopped loading

\* Program constants
DefaultMaxScrolls == 50
SliderMin == 10
SliderMax == 100
SliderDefault == 50
NotFoundRank == -1

----------------------------------------------------------------------------
\* Texts and feed entries

T == <<"T">>
X == <<"X">>

Organic(text) == [ad |-> FALSE, has_name |-> TRUE, text |-> text]
Sponsored(text) == [ad |-> TRUE, has_name |-> TRUE, text |-> text]
Nameless == [ad |-> FALSE, has_name |-> FALSE, text |-> <<>>]

oT == Organic(T)
oTpad == Organic(<<" ", "T", " ">>)
oX == Organic(X)
adT == Sponsored(T)

EntryKinds == {oT, oTpad, oX, adT, Nameless}

AllFeeds == UNION {[1..n -> EntryKinds] : n \in 0..MaxFeed}

\* A page: the feed the site serves and how much of it is rendered at first
Page(f, v) == [feed |-> f, visible |-> v]

AllPages == UNION {{Page(f, v) : v \in 0..Len(f)} : f \in AllFeeds}

\* Pages the site serves in the batch specification
SitePages ==
    { Page(<<>>, 0),
      Page(<<oX, oX>>, 2),
      Page(<<adT, oT, oX>>, 3),
      Page(<<oX, oX, oX, oT>>, 4),
      Page(<<oX, Nameless, oTpad, oT>>, 2) }

PairChoices == {<<"k1", T>>, <<"k2", X>>}
PairLists == UNION {[1..n -> PairChoices] : n \in 0..MaxPairs}

----------------------------------------------------------------------------
\* str.strip()
RECURSIVE LStrip(_)
LStrip(s) ==
    IF s = <<>> THEN s
    ELSE IF Head(s) = " " THEN LStrip(Tail(s)) ELSE s

RECURSIVE RStrip(_)
RStrip(s) ==
    IF s = <<>> THEN s
    ELSE IF s[Len(s)] = " " THEN RStrip(SubSeq(s, 1, Len(s) - 1)) ELSE s

Strip(s) == RStrip(LStrip(s))

\* soup.select(...) on driver.page_source: the rendered <li> entries
PageSource(f, v) == SubSeq(f, 1, v)

\* shop_element.select_one(".gU6bV._DHlh")
IsAdNever(e) == FALSE
IsAd(e) == e.ad

\* the name element is there and its stripped text equals shop_name
NameMatches(e, target) == e.has_name /\ Strip(e.text) = target

\* the for loop over shop_list_element, entered with rank = r at entry idx
RECURSIVE Walk(_, _, _, _)
Walk(entries, idx, r, target) ==
    IF idx > Len(entries)
    THEN [found |-> FALSE, rank |-> r, at |-> 0]
    ELSE IF IsAd(entries[idx])
         THEN Walk(entries, idx + 1, r + 1, target)
         ELSE IF NameMatches(entries[idx], target)
              THEN [found |-> TRUE, rank |-> r + 1, at |-> idx]
              ELSE Walk(entries, idx + 1, r + 1, target)

\* the ordinals the walk gave, entry by entry, when rank went from r0 to r1
Ordinals(r0, r1) == [p \in 1..(r1 - r0) |-> r0 + p]

\* while not found and scroll_count < max_scrolls (found is never set)
LoopCondOffByOne(sc, m) == sc <= m
LoopCond(sc, m) == sc < m

\* rank > 0
IsFoundNonZero(r) == r # 0
IsFound(r) == r > 0

\* the result dict; <<r>> is the rank cell, <<>> the "not found" text cell
Row(k, s, r) ==
    [keyword |-> k, shop_name |-> s,
     rank |-> IF IsFound(r) THEN <<r>> ELSE <<>>,
     found |-> IsFound(r)]

\* results.append(result)
AppendRowFront(rs, row) == <<row>> \o rs
AppendRow(rs, row) == Append(rs, row)

\* the fraction passed to progress_bar.progress in the loop, as <<num, den>>
LoopFractionNext(idx, total) == <<idx + 1, total>>
LoopFraction(idx, total) == <<idx, total>>

\* webdriver.Chrome(...): a fresh session
NewDriver == [disposed |-> FALSE, quits |-> 0]

\* driver.quit()
DriverQuitSkipped(d) == d
DriverQuit(d) == [disposed |-> TRUE, quits |-> d.quits + 1]

Min(a, b) == IF a < b THEN a ELSE b

----------------------------------------------------------------------------
\* Initial states

IdleCall ==
    /\ rpc = "none" /\ shop_name = <<>> /\ max_scrolls = 0
    /\ rank = 0 /\ scroll_count = 0 /\ result = 0
    /\ feed = <<>> /\ visible = 0 /\ seen = 0 /\ failure = "none"
    /\ matched = 0 /\ cycle_base = 0
    /\ ordinals = <<>> /\ prev_ordinals = <<>>

\* the app after start-up, with the form filled in
Init ==
    /\ cached = FALSE /\ driver = NewDriver /\ stale_ops = 0
    /\ runs = 0
    /\ ui_max_scrolls \in {SliderMin, SliderDefault, SliderMax}
    /\ bpc = "idle"
    /\ \E pl \in PairLists :
         /\ keywords = [j \in 1..Len(pl) |-> pl[j][1]]
         /\ shop_names = [j \in 1..Len(pl) |-> pl[j][2]]
    /\ i = 0 /\ results = <<>> /\ progress = <<>> /\ run_quits = 0
    /\ outcomes = <<>>
    /\ IdleCall

\* search_single_business called with a live driver
InitResolve ==
    /\ cached = TRUE /\ driver = NewDriver /\ stale_ops = 0
    /\ runs = 0 /\ ui_max_scrolls = SliderDefault
    /\ bpc = "direct"
    /\ keywords = <<>> /\ shop_names = <<>>
    /\ i = 0 /\ results = <<>> /\ progress = <<>> /\ run_quits = 0
    /\ outcomes = <<>>
    /\ rpc = "nav"
    /\ shop_name \in {T, X}
    /\ max_scrolls \in 1..MaxBudget
    /\ rank = 0 /\ scroll_count = 0 /\ result = 0
    /\ feed = <<>> /\ visible = 0 /\ seen = 0 /\ failure = "none"
    /\ matched = 0 /\ cycle_base = 0
    /\ ordinals = <<>> /\ prev_ordinals = <<>>

----------------------------------------------------------------------------
\* search_single_business

\* no call is active: the frame holds nothing
NoCall ==
    /\ rpc' = "none" /\ shop_name' = <<>> /\ max_scrolls' = 0
    /\ rank' = 0 /\ scroll_count' = 0 /\ result' = 0
    /\ feed' = <<>> /\ visible' = 0 /\ seen' = 0 /\ failure' = "none"
    /\ matched' = 0 /\ cycle_base' = 0
    /\ ordinals' = <<>> /\ prev_ordinals' = <<>>

Return(r, why) ==
    /\ rpc' = "ret"
    /\ result' = r
    /\ failure' = why

\* driver.get(url) raises: always on a driver that was quit
GetRaises ==
    /\ rpc = "nav"
    /\ stale_ops' = IF driver.disposed THEN stale_ops + 1 ELSE stale_ops
    /\ Return(NotFoundRank, "get")
    /\ UNCHANGED <<cached, driver, runs, ui_max_scrolls, batch_vars,
                   shop_name, max_scrolls, rank, scroll_count, feed, visible,
                   seen, matched, cycle_base, ordinals, prev_ordinals>>

\* the wait for searchIframe times out
IframeTimeout ==
    /\ rpc = "nav" /\ ~driver.disposed
    /\ Return(NotFoundRank, "iframe")
    /\ UNCHANGED <<proc_vars, batch_vars,
                   shop_name, max_scrolls, rank, scroll_count, feed, visible,
                   seen, matched, cycle_base, ordinals, prev_ordinals>>

\* the wait for the list container times out
ContainerTimeout ==
    /\ rpc = "nav" /\ ~driver.disposed
    /\ Return(NotFoundRank, "container")
    /\ UNCHANGED <<proc_vars, batch_vars,
                   shop_name, max_scrolls, rank, scroll_count, feed, visible,
                   seen, matched, cycle_base, ordinals, prev_ordinals>>

\* the page loads: the site serves one of the pages P
NavOk(P) ==
    /\ rpc = "nav" /\ ~driver.disposed
    /\ \E pg \in P :
         /\ feed' = pg.feed
         /\ visible' = pg.visible
    /\ rpc' = "loop"
    /\ rank' = 0
    /\ scroll_count' = 0
    /\ UNCHANGED <<proc_vars, batch_vars, shop_name, max_scrolls, result,
                   seen, failure, matched, cycle_base, ordinals, prev_ordinals>>

\* one pass of the while loop in which the walk returns rank
CycleMatch ==
    /\ rpc = "loop" /\ LoopCond(scroll_count, max_scrolls)
    /\ LET w == Walk(PageSource(feed, visible), 1, rank, shop_name) IN
         /\ w.found
         /\ scroll_count' = scroll_count + 1
         /\ seen' = visible
         /\ cycle_base' = rank
         /\ rank' = w.rank
         /\ matched' = w.at
         /\ prev_ordinals' = ordinals
         /\ ordinals' = Ordinals(rank, w.rank)
         /\ Return(w.rank, "none")
    /\ UNCHANGED <<proc_vars, batch_vars, shop_name, max_scrolls, feed, visible>>

\* one pass in which the walk ends without a match and the container is
\* scrolled; more of the feed may render while it is still loading
CycleScroll ==
    /\ rpc = "loop" /\ LoopCond(scroll_count, max_scrolls)
    /\ LET w == Walk(PageSource(feed, visible), 1, rank, shop_name) IN
         /\ ~w.found
         /\ scroll_count' = scroll_count + 1
         /\ seen' = visible
         /\ cycle_base' = rank
         /\ rank' = w.rank
         /\ prev_ordinals' = ordinals
         /\ ordinals' = Ordinals(rank, w.rank)
    /\ \E v \in visible..Len(feed) :
         /\ (scroll_count >= LoadWindow => v = visible)
         /\ visible' = v
    /\ UNCHANGED <<proc_vars, batch_vars, rpc, shop_name, max_scrolls, result,
                   feed, failure, matched>>

\* driver.page_source raises
SnapshotRaises ==
    /\ rpc = "loop" /\ LoopCond(scroll_count, max_scrolls)
    /\ scroll_count' = scroll_count + 1
    /\ Return(NotFoundRank, "snapshot")
    /\ UNCHANGED <<proc_vars, batch_vars, shop_name, max_scrolls, rank, feed,
                   visible, seen, matched, cycle_base, ordinals, prev_ordinals>>

\* driver.execute_script raises after a walk without a match
ScrollRaises ==
    /\ rpc = "loop" /\ LoopCond(scroll_count, max_scrolls)
    /\ LET w == Walk(PageSource(feed, visible), 1, rank, shop_name) IN
         /\ ~w.found
         /\ scroll_count' = scroll_count + 1
         /\ seen' = visible
         /\ cycle_base' = rank
         /\ rank' = w.rank
         /\ prev_ordinals' = ordinals
         /\ ordinals' = Ordinals(rank, w.rank)
    /\ Return(NotFoundRank, "scroll")
    /\ UNCHANGED <<proc_vars, batch_vars, shop_name, max_scrolls, feed, visible,
                   matched>>

\* the loop condition fails: return -1
LoopExit ==
    /\ rpc = "loop" /\ ~LoopCond(scroll_count, max_scrolls)
    /\ Return(NotFoundRank, "none")
    /\ UNCHANGED <<proc_vars, batch_vars, shop_name, max_scrolls, rank,
                   scroll_count, feed, visible, seen, matched, cycle_base,
                   ordinals, prev_ordinals>>

----------------------------------------------------------------------------
\* search_multiple_businesses

Total == Len(keywords)
NPairs == Min(Len(keywords), Len(shop_names))

\* results = []; driver = setup_driver(): made once, then served from the cache
StartBatch ==
    /\ bpc \in {"idle", "done"} /\ runs < MaxRuns
    /\ runs' = runs + 1
    /\ cached' = TRUE
    /\ driver' = IF cached THEN driver ELSE NewDriver
    /\ bpc' = "loop"
    /\ i' = 0 /\ results' = <<>> /\ progress' = <<>> /\ run_quits' = 0
    /\ outcomes' = <<>>
    /\ UNCHANGED <<stale_ops, ui_max_scrolls, keywords, shop_names, call_vars>>

\* setup_driver() raises while making the driver: nothing is cached
SetupDriverFails ==
    /\ bpc \in {"idle", "done"} /\ runs < MaxRuns
    /\ ~cached
    /\ runs' = runs + 1
    /\ bpc' = "idle"
    /\ i' = 0 /\ results' = <<>> /\ progress' = <<>> /\ run_quits' = 0
    /\ outcomes' = <<>>
    /\ UNCHANGED <<cached, driver, stale_ops, ui_max_scrolls, keywords,
                   shop_names, call_vars>>

\* loop body up to the call: report i/total, call search_single_business
PairStart ==
    /\ bpc = "loop" /\ i < NPairs
    /\ progress' = Append(progress, LoopFraction(i, Total))
    /\ bpc' = "call"
    /\ rpc' = "nav"
    /\ shop_name' = shop_names[i + 1]
    /\ max_scrolls' = DefaultMaxScrolls
    /\ rank' = 0 /\ scroll_count' = 0 /\ result' = 0
    /\ feed' = <<>> /\ visible' = 0 /\ seen' = 0 /\ failure' = "none"
    /\ matched' = 0 /\ cycle_base' = 0
    /\ ordinals' = <<>> /\ prev_ordinals' = <<>>
    /\ UNCHANGED <<proc_vars, keywords, shop_names, i, results, run_quits, outcomes>>

\* the call returns: append the row, sleep, next pair
PairEnd ==
    /\ bpc = "call" /\ rpc = "ret"
    /\ results' = AppendRow(results, Row(keywords[i + 1], shop_names[i + 1], result))
    /\ outcomes' = Append(outcomes, [failure |-> failure, at |-> matched])
    /\ i' = i + 1
    /\ bpc' = "loop"
    /\ NoCall
    /\ UNCHANGED <<proc_vars, keywords, shop_names, progress, run_quits>>

\* finally: driver.quit(); report 1.0; return the rows
Finally ==
    /\ bpc = "loop" /\ i >= NPairs
    /\ driver' = DriverQuit(driver)
    /\ run_quits' = run_quits + (driver'.quits - driver.quits)
    /\ progress' = Append(progress, <<1, 1>>)
    /\ bpc' = "done"
    /\ UNCHANGED <<cached, stale_ops, runs, ui_max_scrolls, keywords,
                   shop_names, i, results, outcomes, call_vars>>

----------------------------------------------------------------------------
Resolve(P) ==
    \/ GetRaises
    \/ IframeTimeout
    \/ ContainerTimeout
    \/ NavOk(P)
    \/ CycleMatch
    \/ CycleScroll
    \/ SnapshotRaises
    \/ ScrollRaises
    \/ LoopExit

Next ==
    \/ StartBatch
    \/ SetupDriverFails
    \/ PairStart
    \/ PairEnd
    \/ Finally
    \/ Resolve(SitePages)

Spec == Init /\ [][Next]_vars

NextResolve == Resolve(AllPages)

SpecResolve == InitResolve /\ [][NextResolve]_vars

----------------------------------------------------------------------------
\* Vocabulary of the properties

\* the entry reads as the target: it has a name whose trimmed text is the target
ReadsAs(e, target) == e.has_name /\ Strip(e.text) = target

\* position in f of the first non-sponsored entry that reads as the target, or 0
FirstMatch(f, target) ==
    LET hits == {j \in 1..Len(f) : ~f[j].ad /\ ReadsAs(f[j], target)} IN
    IF hits = {} THEN 0 ELSE CHOOSE j \in hits : \A k \in hits : j <= k

\* the call has returned through return rank or the final return -1
Returned == rpc = "ret" /\ failure = "none"

InRun == bpc \in {"loop", "call", "done"}

\* pairs whose resolution the current run has started
Started == i + (IF bpc = "call" THEN 1 ELSE 0)

IsOne(fr) == fr[1] = fr[2]
Leq(a, b) == a[1] * b[2] <= b[1] * a[2]

NavFailures == {"get", "iframe", "container"}

----------------------------------------------------------------------------
\* C1: when the first non-sponsored entry reading as the target is the Nth
\* entry of the feed and it has been in a snapshot, the call returns N,
\* in whichever scroll cycle that snapshot was taken.
C1_ReturnsFeedPosition ==
    (Returned /\ FirstMatch(feed, shop_name) \in 1..seen)
        => result = FirstMatch(feed, shop_name)

\* C2: the ordinals given in a walk are 1..N for the N entries walked, and
\* an entry walked in two consecutive cycles gets the same ordinal in both.
C2_OrdinalsStable ==
    (rpc \in {"loop", "ret"})
        => /\ ordinals = [p \in 1..Len(ordinals) |-> p]
           /\ \A p \in (DOMAIN ordinals) \cap (DOMAIN prev_ordinals) :
                ordinals[p] = prev_ordinals[p]

\* C3: a pair of a batch runs no more parse cycles than the slider value,
\* and a pair that ends not-found by exhausting its budget ran exactly that many.
C3_CyclesBoundedBySlider ==
    (bpc = "call")
        => /\ scroll_count <= ui_max_scrolls
           /\ (Returned /\ result = NotFoundRank) => scroll_count = ui_max_scrolls

\* C4: the rows of a batch run are one per resolved pair, in input order,
\* row j carrying keyword j and shop name j; a completed run has a row for
\* every pair.
C4_OneRowPerPairInOrder ==
    InRun
        => /\ Len(results) = i
           /\ \A j \in 1..Len(results) :
                /\ j <= NPairs
                /\ results[j].keyword = keywords[j]
                /\ results[j].shop_name = shop_names[j]
           /\ (bpc = "done" => Len(results) = Len(keywords))

C4_Witness ==
    /\ bpc = "done" /\ Len(results) = 2
    /\ keywords[1] # keywords[2]
    /\ results[1].found
    /\ outcomes[2].failure = "scroll"

\* C5: a batch run that acquired a session calls driver.quit exactly once,
\* after the resolution of its last pair has ended, and not while pairs are
\* being resolved, also when every pair fails.
C5_DisposedOncePerRun ==
    /\ (bpc \in {"loop", "call"} => run_quits = 0)
    /\ (bpc = "done"
          => /\ run_quits = 1
             /\ driver.disposed
             /\ i = NPairs /\ Len(outcomes) = NPairs /\ rpc = "none")

C5_Witness ==
    /\ bpc = "done" /\ runs = 1 /\ run_quits = 1 /\ driver.quits = 1
    /\ Len(outcomes) = 2
    /\ outcomes[1].failure = "iframe"
    /\ outcomes[2].failure = "get"

\* C6: the row of a pair whose resolution failed (timeout or exception) is a
\* not-found row, the run goes on to resolve every later pair, and a later
\* pair that matched has a found row carrying the returned rank.
C6_FailureIsolated ==
    InRun
        => /\ Len(outcomes) = Len(results)
           /\ \A j \in 1..Min(Len(outcomes), Len(results)) :
                /\ (outcomes[j].failure # "none"
                      => ~results[j].found /\ results[j].rank = <<>>)
                /\ (outcomes[j].at > 0
                      => results[j].found /\ Len(results[j].rank) = 1)
           /\ (bpc = "done" => Len(outcomes) = NPairs)

C6_Witness ==
    /\ bpc = "done" /\ Len(results) = 2
    /\ outcomes[1].failure \in NavFailures
    /\ ~results[1].found /\ results[1].rank = <<>>
    /\ outcomes[2].at = 4
    /\ results[2].found /\ results[2].rank = <<4>>

\* C7: a call that returns without a failure and without any snapshot having
\* held a non-sponsored entry reading as the target returns -1 after exactly
\* max_scrolls snapshot-and-parse cycles; no call runs more than max_scrolls.
C7_ExhaustsBudget ==
    /\ (rpc \in {"loop", "ret"} => scroll_count <= max_scrolls)
    /\ (Returned /\ FirstMatch(PageSource(feed, seen), shop_name) = 0)
          => /\ result = NotFoundRank
             /\ scroll_count = max_scrolls

C7_Witness ==
    /\ Returned /\ shop_name = T /\ max_scrolls = 5
    /\ feed = <<oX, oX>> /\ seen = 2 /\ cycle_base = 8
    /\ scroll_count = 5 /\ result = NotFoundRank

\* C8: the entry at which a call returns a rank is never sponsored; when only
\* sponsored entries read as the target the call returns -1; the returned
\* rank counts every entry walked before the match in that cycle, sponsored
\* ones included, so a match in the first cycle returns its feed position.
C8_SponsoredNeverMatched ==
    Returned
        => /\ (result > 0
                 => /\ matched \in 1..seen
                    /\ ~feed[matched].ad
                    /\ ReadsAs(feed[matched], shop_name)
                    /\ result = cycle_base + matched
                    /\ (scroll_count = 1 => result = matched))
           /\ ((\A j \in 1..seen : ReadsAs(feed[j], shop_name) => feed[j].ad)
                 => result = NotFoundRank)

C8_Witness ==
    /\ Returned /\ shop_name = T
    /\ feed = <<adT, oT, oX>>
    /\ result = 2 /\ matched = 2

\* C9: the fractions a batch run reports never decrease; index/total is
\* reported as each pair starts and is below 1; 1.0 is reported exactly
\* once, last, when the run completes.
C9_ProgressMonotone ==
    InRun
        => /\ \A j \in 1..(Len(progress) - 1) : Leq(progress[j], progress[j + 1])
           /\ Len(progress) = Started + (IF bpc = "done" THEN 1 ELSE 0)
           /\ \A j \in 1..Started :
                progress[j] = <<j - 1, Len(keywords)>> /\ ~IsOne(progress[j])
           /\ Cardinality({j \in DOMAIN progress : IsOne(progress[j])})
                = (IF bpc = "done" THEN 1 ELSE 0)
           /\ (bpc = "done" => IsOne(progress[Len(progress)]))

C9_Witness ==
    /\ bpc = "done"
    /\ progress = << <<0, 2>>, <<1, 2>>, <<1, 1>> >>

\* C10: no driver.get is issued on a session that was already quit, and no
\* session is quit twice.
C10_NoUseAfterDispose ==
    /\ stale_ops = 0
    /\ driver.quits <= 1

====
